---- MODULE Spec2Model ----
(***************************************************************************)
(* A model of the goroutine pool of src/pool.go (package ants).            *)
(*                                                                         *)
(* Threads of the model:                                                   *)
(*   - the constructor (NewPool),                                          *)
(*   - NumCallers client goroutines, each calling Push once with its own   *)
(*     task (task c is the task of caller c),                              *)
(*   - one goroutine per minted Worker (Worker.run),                       *)
(*   - a client goroutine calling Release up to MaxReleases times,         *)
(*   - a client calling ReSize.                                            *)
(*                                                                         *)
(* p.workers is only touched while p.lock is held, so the critical         *)
(* sections of getWorker and putWorker are single steps guarded by the     *)
(* lock being free.  Release is split in steps because Push reads          *)
(* p.closed without the lock and because close(p.release) can panic while  *)
(* the lock is held.                                                       *)
(***************************************************************************)
EXTENDS Integers, Sequences, FiniteSets, Bags, TLC

\* ---------------------------------------------------------------- bounds
NumCallers == 3          \* client goroutines, one Push each
MaxSize == 2             \* largest small size handed to NewPool / ReSize
MaxReleases == 2         \* Release calls issued by the releasing client
NumStatsCallers == 2     \* client goroutines calling Push while Free is observed

\* ------------------------------------------------------------- constants
MaxInt32 == 2147483647   \* math.MaxInt32
MinInt32 == -MaxInt32 - 1
Limb == 65536            \* a Go int (64 bit) is kept as four 16-bit limbs

Callers == 1..NumCallers
\* every Push mints at most one Worker, so NumCallers identities suffice
WorkerIds == 1..NumCallers
NoWorker == 0

\* ------------------------------------------------- Go int and int32(size)
\* A 64-bit Go int as <<l3, l2, l1, l0>>, most significant 16-bit limb first
\* (two's complement).  GoInt(n) is the conversion int(n) of an int32 n.
GoInt(n) == IF n >= 0 THEN <<0, 0, n \div Limb, n % Limb>>
            ELSE LET m == n + MaxInt32 + 1
                 IN  <<Limb - 1, Limb - 1, 32768 + (m \div Limb), m % Limb>>

Two32 == <<0, 1, 0, 0>>          \* 1 << 32

\* size <= 0 on the 64-bit value
NonPositive(s) == s[1] >= 32768 \/ s = <<0, 0, 0, 0>>

\* the conversion int32(size): the low 32 bits, reinterpreted as signed
ToInt32(s) == IF s[3] < 32768 THEN s[3] * Limb + s[4]
              ELSE (s[3] - Limb) * Limb + s[4]

\* a - b on int32 operands: wraps at the int32 width
SubInt32(a, b) ==
    IF b >= 0
    THEN IF a < MinInt32 + b
         THEN (((a + MaxInt32) + 1) + (MaxInt32 - b)) + 1
         ELSE a - b
    ELSE IF a > MaxInt32 + b
         THEN ((a - MaxInt32) - 1) + (MinInt32 - b)
         ELSE a - b

\* the sign of a Go int
Negative(s) == s[1] >= 32768

\* atomic.AddInt32(&x, 1): wraps at the int32 width
AddInt32One(x) == IF x = MaxInt32 THEN MinInt32 ELSE x + 1

SmallSizes == {GoInt(n) : n \in -1..MaxSize}
NewPoolSizes == SmallSizes \cup {Two32}
ReSizeSizes == {GoInt(n) : n \in -1..MaxSize} \cup {Two32}

VARIABLES
    size,        \* the argument of the NewPool call
    pool,        \* "none": not constructed; "live": *Pool returned; "nil"
    newErr,      \* the error NewPool returned
    capacity,    \* p.capacity
    running,     \* p.running
    closed,      \* p.closed
    workers,     \* p.workers, the idle stack (top = last)
    freeSignal,  \* number of units buffered in p.freeSignal
    workerPool,  \* p.workerPool (sync.Pool), a bag of Worker ids
    release,     \* p.release: "open" or "closed" channel
    lock,        \* p.lock: "free" or the holder
    cpc,         \* caller -> position in Push / getWorker
    cw,          \* caller -> local w of getWorker / Push
    waiting,     \* caller -> local waiting of getWorker
    cresult,     \* caller -> what Push returned
    popped,      \* caller -> the entry its locked check popped (history)
    minted,      \* caller -> the Worker its getWorker call minted (history)
    relAtStart,  \* caller -> Release calls returned when its Push started
                 \*           (history, -1 before the Push)
    handedBefore,\* caller -> its task is executing and was handed to its
                 \*           Worker before any Release call began (history)
    pushedSince, \* caller -> a putWorker pushed an entry after the locked
                 \*           check of its getWorker call (history)
    wpc,         \* worker -> position in Worker.run
    wtask,       \* worker -> task being executed
    stopped,     \* workers whose task channel has been closed (Worker.stop)
    done,        \* tasks executed to completion
    rpc,         \* position of the releasing client inside Release
    releases,    \* Release calls that have returned
    fpc,         \* position of the client calling Free
    fcap,        \* Free: the value loaded from p.capacity
    frun,        \* Free: the value loaded from p.running
    fres         \* Free: the value returned (a Go int)

vars == <<size, pool, newErr, capacity, running, closed, workers, freeSignal,
          workerPool, release, lock, cpc, cw, waiting, cresult, popped,
          minted, relAtStart, handedBefore, pushedSince, wpc, wtask,
          stopped, done, rpc, releases, fpc, fcap, frun, fres>>

poolVars == <<size, pool, newErr>>
callerVars == <<cpc, cw, waiting, cresult, popped, minted, relAtStart,
                handedBefore, pushedSince>>
workerVars == <<wpc, wtask, stopped, done>>
releaseVars == <<release, rpc, releases>>
freeVars == <<fpc, fcap, frun, fres>>

\* ------------------------------------------------------------ accessors
\* Pool.Running
Running == GoInt(running)

\* Pool.Cap
Cap == GoInt(capacity)

Top(s) == s[Len(s)]

Pop(s) == SubSeq(s, 1, Len(s) - 1)

\* sync.Pool.Put
PoolPut(b, w) == b (+) SetToBag({w})

\* sync.Pool.Get taking item w out
PoolTake(b, w) == b (-) SetToBag({w})

\* positions of a getWorker call after its locked check and before its return
AfterCheck == {"recvSignal", "retry", "cacheGet"}

\* the next Worker identity to allocate
Fresh == CHOOSE w \in WorkerIds : wpc[w] = "unborn" /\
             \A v \in WorkerIds : wpc[v] = "unborn" => w <= v

\* ------------------------------------------------------------------ Init
Init ==
    /\ size \in NewPoolSizes
    /\ pool = "none"
    /\ newErr = "none"
    /\ capacity = 0
    /\ running = 0
    /\ closed = 0
    /\ workers = <<>>
    /\ freeSignal = 0
    /\ workerPool = EmptyBag
    /\ release = "open"
    /\ lock = "free"
    /\ cpc = [c \in Callers |-> "start"]
    /\ cw = [c \in Callers |-> NoWorker]
    /\ waiting = [c \in Callers |-> FALSE]
    /\ relAtStart = [c \in Callers |-> -1]
    /\ pushedSince = [c \in Callers |-> FALSE]
    /\ handedBefore = [c \in Callers |-> FALSE]
    /\ cresult = [c \in Callers |-> "none"]
    /\ popped = [c \in Callers |-> NoWorker]
    /\ minted = [c \in Callers |-> NoWorker]
    /\ wpc = [w \in WorkerIds |-> "unborn"]
    /\ wtask = [w \in WorkerIds |-> 0]
    /\ stopped = {}
    /\ done = {}
    /\ rpc = "idle"
    /\ releases = 0
    /\ fpc = "idle"
    /\ fcap = 0
    /\ frun = 0
    /\ fres = GoInt(0)

\* --------------------------------------------------------------- NewPool
NewPool ==
    /\ pool = "none"
    /\ newErr = "none"
    /\ IF NonPositive(size)
       THEN /\ pool' = "nil"
            /\ newErr' = "PoolSizeInvalidError"
            /\ UNCHANGED capacity
       ELSE /\ pool' = "live"
            /\ newErr' = "nil"
            /\ capacity' = ToInt32(size)
    /\ UNCHANGED <<size, running, closed, workers, freeSignal, workerPool,
                   lock>>
    /\ UNCHANGED <<callerVars, workerVars, releaseVars>>
    /\ UNCHANGED freeVars

\* ------------------------------------------------------------------ Push
\* Push without the closed check
PushStartUnchecked(c) ==
    /\ pool = "live"
    /\ cpc[c] = "start"
    /\ cpc' = [cpc EXCEPT ![c] = "getWorker"]
    /\ relAtStart' = [relAtStart EXCEPT ![c] = releases]
    /\ UNCHANGED <<poolVars, capacity, running, closed, workers, freeSignal,
                   workerPool, lock, cw, waiting, cresult, popped, minted,
                   handedBefore, pushedSince>>
    /\ UNCHANGED <<workerVars, releaseVars>>
    /\ UNCHANGED freeVars

\* Push, line 95: the closed check
PushStart(c) ==
    /\ pool = "live"
    /\ cpc[c] = "start"
    /\ IF closed = 1
       THEN /\ cpc' = [cpc EXCEPT ![c] = "returned"]
            /\ cresult' = [cresult EXCEPT ![c] = "PoolClosedError"]
       ELSE /\ cpc' = [cpc EXCEPT ![c] = "getWorker"]
            /\ UNCHANGED cresult
    /\ relAtStart' = [relAtStart EXCEPT ![c] = releases]
    /\ UNCHANGED <<poolVars, capacity, running, closed, workers, freeSignal,
                   workerPool, lock, cw, waiting, popped, minted,
                   handedBefore, pushedSince>>
    /\ UNCHANGED <<workerVars, releaseVars>>
    /\ UNCHANGED freeVars

\* getWorker, lines 139-151: the locked check
GetWorkerCheck(c) ==
    /\ cpc[c] = "getWorker"
    /\ lock = "free"
    /\ IF Len(workers) - 1 < 0
       THEN /\ IF running >= capacity
               THEN /\ waiting' = [waiting EXCEPT ![c] = TRUE]
                    /\ cpc' = [cpc EXCEPT ![c] = "recvSignal"]
               ELSE /\ cpc' = [cpc EXCEPT ![c] = "cacheGet"]
                    /\ UNCHANGED waiting
            /\ UNCHANGED <<workers, cw, popped>>
       ELSE /\ cw' = [cw EXCEPT ![c] = Top(workers)]
            /\ popped' = [popped EXCEPT ![c] = Top(workers)]
            /\ workers' = Pop(workers)
            /\ cpc' = [cpc EXCEPT ![c] = "cacheGet"]
            /\ UNCHANGED waiting
    /\ UNCHANGED <<poolVars, capacity, running, closed, freeSignal,
                   workerPool, lock, cresult, minted, relAtStart,
                   handedBefore, pushedSince>>
    /\ UNCHANGED <<workerVars, releaseVars>>
    /\ UNCHANGED freeVars

\* a wait that sees a unit in freeSignal but leaves it there
GetWorkerRecvKeep(c) ==
    /\ cpc[c] = "recvSignal"
    /\ freeSignal > 0
    /\ cpc' = [cpc EXCEPT ![c] = "retry"]
    /\ UNCHANGED <<poolVars, capacity, running, closed, workers, workerPool,
                   freeSignal, lock, cw, waiting, cresult, popped, minted,
                   relAtStart, handedBefore, pushedSince>>
    /\ UNCHANGED <<workerVars, releaseVars>>
    /\ UNCHANGED freeVars

\* getWorker, line 154: <-p.freeSignal
GetWorkerRecv(c) ==
    /\ cpc[c] = "recvSignal"
    /\ freeSignal > 0
    /\ freeSignal' = freeSignal - 1
    /\ cpc' = [cpc EXCEPT ![c] = "retry"]
    /\ UNCHANGED <<poolVars, capacity, running, closed, workers, workerPool,
                   lock, cw, waiting, cresult, popped, minted, relAtStart,
                   handedBefore, pushedSince>>
    /\ UNCHANGED <<workerVars, releaseVars>>
    /\ UNCHANGED freeVars

\* a retry that gives up on an empty stack and falls through to the cache
GetWorkerRetryOnce(c) ==
    /\ cpc[c] = "retry"
    /\ lock = "free"
    /\ IF Len(workers) - 1 < 0
       THEN /\ cpc' = [cpc EXCEPT ![c] = "cacheGet"]
            /\ UNCHANGED <<workers, cw, popped>>
       ELSE /\ cw' = [cw EXCEPT ![c] = Top(workers)]
            /\ popped' = [popped EXCEPT ![c] = Top(workers)]
            /\ workers' = Pop(workers)
            /\ cpc' = [cpc EXCEPT ![c] = "sendTask"]
    /\ UNCHANGED <<poolVars, capacity, running, closed, freeSignal,
                   workerPool, lock, waiting, cresult, minted, relAtStart,
                   handedBefore, pushedSince>>
    /\ UNCHANGED <<workerVars, releaseVars>>
    /\ UNCHANGED freeVars

\* getWorker, lines 155-168: one iteration of the retry loop
GetWorkerRetry(c) ==
    /\ cpc[c] = "retry"
    /\ lock = "free"
    /\ IF Len(workers) - 1 < 0
       THEN UNCHANGED <<workers, cw, popped, cpc>>
       ELSE /\ cw' = [cw EXCEPT ![c] = Top(workers)]
            /\ popped' = [popped EXCEPT ![c] = Top(workers)]
            /\ workers' = Pop(workers)
            /\ cpc' = [cpc EXCEPT ![c] = "sendTask"]
    /\ UNCHANGED <<poolVars, capacity, running, closed, freeSignal,
                   workerPool, lock, waiting, cresult, minted, relAtStart,
                   handedBefore, pushedSince>>
    /\ UNCHANGED <<workerVars, releaseVars>>
    /\ UNCHANGED freeVars

\* a mint that forgets to count the new Worker
MintUncounted(c) ==
    /\ cw' = [cw EXCEPT ![c] = Fresh]
    /\ minted' = [minted EXCEPT ![c] = Fresh]
    /\ wpc' = [wpc EXCEPT ![Fresh] = "recv"]
    /\ UNCHANGED <<running, workerPool>>

\* getWorker, lines 172-177: no cached Worker, mint one
Mint(c) ==
    /\ cw' = [cw EXCEPT ![c] = Fresh]
    /\ minted' = [minted EXCEPT ![c] = Fresh]
    /\ wpc' = [wpc EXCEPT ![Fresh] = "recv"]
    /\ running' = AddInt32One(running)
    /\ UNCHANGED workerPool

\* getWorker, line 179: use the cached Worker wp
UseCached(c, wp) ==
    /\ cw' = [cw EXCEPT ![c] = wp]
    /\ workerPool' = PoolTake(workerPool, wp)
    /\ UNCHANGED <<minted, wpc, running>>

\* getWorker, lines 169-181: the branch taken when waiting is false.
\* sync.Pool.Get returns any item that was Put and not yet taken, or nil
\* (it may treat the pool as empty at any time).
GetWorkerCache(c) ==
    /\ cpc[c] = "cacheGet"
    /\ \/ Mint(c)
       \/ \E wp \in BagToSet(workerPool) : UseCached(c, wp)
    /\ cpc' = [cpc EXCEPT ![c] = "sendTask"]
    /\ UNCHANGED <<poolVars, capacity, closed, workers, freeSignal, lock,
                   waiting, cresult, popped, relAtStart, handedBefore,
                   pushedSince, wtask, stopped, done>>
    /\ UNCHANGED releaseVars
    /\ UNCHANGED freeVars

\* Push, lines 99-100: w.sendTask(task) on the unbuffered task channel of w,
\* received by the goroutine of w; then return nil
SendTask(c) ==
    /\ cpc[c] = "sendTask"
    /\ cw[c] \notin stopped
    /\ wpc[cw[c]] = "recv"
    /\ wpc' = [wpc EXCEPT ![cw[c]] = "exec"]
    /\ wtask' = [wtask EXCEPT ![cw[c]] = c]
    /\ cpc' = [cpc EXCEPT ![c] = "returned"]
    /\ cresult' = [cresult EXCEPT ![c] = "nil"]
    /\ handedBefore' = [handedBefore EXCEPT
                           ![c] = (rpc = "idle" /\ releases = 0)]
    /\ UNCHANGED <<poolVars, capacity, running, closed, workers, freeSignal,
                   workerPool, lock, cw, waiting, popped, minted, relAtStart,
                   pushedSince, stopped, done>>
    /\ UNCHANGED releaseVars
    /\ UNCHANGED freeVars

\* ---------------------------------------------------------------- Worker
\* Worker.run: the task f() runs to completion
WorkerExec(w) ==
    /\ wpc[w] = "exec"
    /\ done' = done \cup {wtask[w]}
    /\ wpc' = [wpc EXCEPT ![w] = "put"]
    /\ handedBefore' = [handedBefore EXCEPT ![wtask[w]] = FALSE]
    /\ UNCHANGED <<poolVars, capacity, running, closed, workers, freeSignal,
                   workerPool, lock, wtask, stopped>>
    /\ UNCHANGED <<cpc, cw, waiting, cresult, popped, minted, relAtStart,
                   pushedSince>>
    /\ UNCHANGED releaseVars
    /\ UNCHANGED freeVars

\* putWorker, line 187: p.workerPool.Put(worker)
PutWorkerCache(w) ==
    /\ wpc[w] = "put"
    /\ workerPool' = PoolPut(workerPool, w)
    /\ wpc' = [wpc EXCEPT ![w] = "append"]
    /\ UNCHANGED <<poolVars, capacity, running, closed, workers, freeSignal,
                   lock, wtask, stopped, done>>
    /\ UNCHANGED <<callerVars, releaseVars>>
    /\ UNCHANGED freeVars

\* putWorker, lines 188-190: append under the lock
PutWorkerAppend(w) ==
    /\ wpc[w] = "append"
    /\ lock = "free"
    /\ workers' = Append(workers, w)
    /\ wpc' = [wpc EXCEPT ![w] = "signal"]
    /\ pushedSince' = [c \in Callers |->
                          pushedSince[c] \/ cpc[c] \in AfterCheck]
    /\ UNCHANGED <<poolVars, capacity, running, closed, freeSignal,
                   workerPool, lock, wtask, stopped, done>>
    /\ UNCHANGED <<cpc, cw, waiting, cresult, popped, minted, relAtStart,
                   handedBefore>>
    /\ UNCHANGED releaseVars
    /\ UNCHANGED freeVars

\* putWorker that posts no freeSignal unit
PutWorkerNoSignal(w) ==
    /\ wpc[w] = "signal"
    /\ wpc' = [wpc EXCEPT ![w] = "recv"]
    /\ wtask' = [wtask EXCEPT ![w] = 0]
    /\ UNCHANGED <<poolVars, capacity, running, closed, workers, workerPool,
                   freeSignal, lock, stopped, done>>
    /\ UNCHANGED <<callerVars, releaseVars>>
    /\ UNCHANGED freeVars

\* putWorker, line 191: p.freeSignal <- sig{} (buffer of math.MaxInt32)
PutWorkerSignal(w) ==
    /\ wpc[w] = "signal"
    /\ freeSignal < MaxInt32
    /\ freeSignal' = freeSignal + 1
    /\ wpc' = [wpc EXCEPT ![w] = "recv"]
    /\ wtask' = [wtask EXCEPT ![w] = 0]
    /\ UNCHANGED <<poolVars, capacity, running, closed, workers, workerPool,
                   lock, stopped, done>>
    /\ UNCHANGED <<callerVars, releaseVars>>
    /\ UNCHANGED freeVars

\* --------------------------------------------------------------- Release
\* Release, line 120
ReleaseLock ==
    /\ pool = "live"
    /\ rpc = "idle"
    /\ releases < MaxReleases
    /\ lock = "free"
    /\ lock' = "Release"
    /\ rpc' = "store"
    /\ UNCHANGED <<poolVars, capacity, running, closed, workers, freeSignal,
                   workerPool, release, releases>>
    /\ UNCHANGED <<callerVars, workerVars>>
    /\ UNCHANGED freeVars

\* Release, line 121
ReleaseStore ==
    /\ rpc = "store"
    /\ closed' = 1
    /\ rpc' = "close"
    /\ UNCHANGED <<poolVars, capacity, running, workers, freeSignal,
                   workerPool, lock, release, releases>>
    /\ UNCHANGED <<callerVars, workerVars>>
    /\ UNCHANGED freeVars

\* a Release that skips the close when the channel is already closed
ReleaseCloseOnce ==
    /\ rpc = "close"
    /\ release' = "closed"
    /\ rpc' = "unlock"
    /\ UNCHANGED <<poolVars, capacity, running, closed, workers, freeSignal,
                   workerPool, lock, releases>>
    /\ UNCHANGED <<callerVars, workerVars>>
    /\ UNCHANGED freeVars

\* a Release that also stops the idle Workers
ReleaseCloseStopIdle ==
    /\ rpc = "close"
    /\ IF release = "closed"
       THEN /\ rpc' = "panicked"
            /\ UNCHANGED release
       ELSE /\ release' = "closed"
            /\ rpc' = "unlock"
    /\ stopped' = stopped \cup {workers[i] : i \in 1..Len(workers)}
    /\ UNCHANGED <<poolVars, capacity, running, closed, workers, freeSignal,
                   workerPool, lock, releases>>
    /\ UNCHANGED <<callerVars, wpc, wtask, done>>
    /\ UNCHANGED freeVars

\* Release, line 122: close of a closed channel panics
ReleaseClose ==
    /\ rpc = "close"
    /\ IF release = "closed"
       THEN /\ rpc' = "panicked"
            /\ UNCHANGED release
       ELSE /\ release' = "closed"
            /\ rpc' = "unlock"
    /\ UNCHANGED <<poolVars, capacity, running, closed, workers, freeSignal,
                   workerPool, lock, releases>>
    /\ UNCHANGED <<callerVars, workerVars>>
    /\ UNCHANGED freeVars

\* Release, lines 123-124
ReleaseUnlock ==
    /\ rpc = "unlock"
    /\ lock' = "free"
    /\ rpc' = "idle"
    /\ releases' = releases + 1
    /\ UNCHANGED <<poolVars, capacity, running, closed, workers, freeSignal,
                   workerPool, release>>
    /\ UNCHANGED <<callerVars, workerVars>>
    /\ UNCHANGED freeVars

\* ---------------------------------------------------------------- ReSize
ReSize(s) ==
    /\ pool = "live"
    /\ capacity' = ToInt32(s)
    /\ UNCHANGED <<poolVars, running, closed, workers, freeSignal,
                   workerPool, lock>>
    /\ UNCHANGED <<callerVars, workerVars, releaseVars>>
    /\ UNCHANGED freeVars

\* ------------------------------------------------------------------ Free
\* Free, line 110: the first operand, atomic.LoadInt32(&p.capacity)
FreeLoadCapacity ==
    /\ pool = "live"
    /\ fpc = "idle"
    /\ fcap' = capacity
    /\ fpc' = "loaded"
    /\ UNCHANGED <<frun, fres>>
    /\ UNCHANGED <<poolVars, capacity, running, closed, workers, freeSignal,
                   workerPool, lock>>
    /\ UNCHANGED <<callerVars, workerVars, releaseVars>>

\* Free, line 110: atomic.LoadInt32(&p.running), the int32 subtraction, the
\* conversion to int and the return
FreeReturn ==
    /\ fpc = "loaded"
    /\ frun' = running
    /\ fres' = GoInt(SubInt32(fcap, running))
    /\ fpc' = "returned"
    /\ UNCHANGED fcap
    /\ UNCHANGED <<poolVars, capacity, running, closed, workers, freeSignal,
                   workerPool, lock>>
    /\ UNCHANGED <<callerVars, workerVars, releaseVars>>

\* ------------------------------------------------------- specifications
Free ==
    \/ FreeLoadCapacity
    \/ FreeReturn

Push(c) ==
    \/ PushStart(c)
    \/ GetWorkerCheck(c)
    \/ GetWorkerRecv(c)
    \/ GetWorkerRetry(c)
    \/ GetWorkerCache(c)
    \/ SendTask(c)

WorkerRun(w) ==
    \/ WorkerExec(w)
    \/ PutWorkerCache(w)
    \/ PutWorkerAppend(w)
    \/ PutWorkerSignal(w)

Release ==
    \/ ReleaseLock
    \/ ReleaseStore
    \/ ReleaseClose
    \/ ReleaseUnlock

\* no ReSize, no Release
NextLive ==
    \/ NewPool
    \/ \E c \in Callers : Push(c)
    \/ \E w \in WorkerIds : WorkerRun(w)

\* no ReSize
NextFixed ==
    \/ NewPool
    \/ \E c \in Callers : Push(c)
    \/ \E w \in WorkerIds : WorkerRun(w)
    \/ Release

Next ==
    \/ NewPool
    \/ \E c \in Callers : Push(c)
    \/ \E w \in WorkerIds : WorkerRun(w)
    \/ Release
    \/ \E s \in ReSizeSizes : ReSize(s)

\* the sizes handed to ReSize when Free is observed: the int32 minimum too
StatsSizes == ReSizeSizes \cup {GoInt(MinInt32)}

\* Push by NumStatsCallers clients, the Workers, ReSize and one call of
\* Free; no Release
NextStats ==
    \/ NewPool
    \/ \E c \in 1..NumStatsCallers : Push(c)
    \/ \E w \in WorkerIds : WorkerRun(w)
    \/ \E s \in StatsSizes : ReSize(s)
    \/ Free

Spec == Init /\ [][Next]_vars

SpecFixed == Init /\ [][NextFixed]_vars

SpecStats == Init /\ [][NextStats]_vars

\* every goroutine that can take a step eventually takes one; the clients
\* calling Release and ReSize are free not to call
Fairness ==
    /\ WF_vars(NewPool)
    /\ \A c \in Callers : WF_vars(Push(c))
    /\ \A w \in WorkerIds : WF_vars(WorkerRun(w))

SpecLive == Init /\ [][NextLive]_vars /\ Fairness

SpecFair == Init /\ [][NextFixed]_vars /\ Fairness

\* a Release call that has taken the lock goes on to its return
ReleaseFairness ==
    /\ WF_vars(ReleaseStore)
    /\ WF_vars(ReleaseClose)
    /\ WF_vars(ReleaseUnlock)

SpecClose == Init /\ [][NextFixed]_vars /\ Fairness /\ ReleaseFairness

\* ===================================================================
\* Claims
\* ===================================================================
\* callers that hold Worker w: getWorker returned w to them and the task
\* has not yet been received by w
Holders(w) == {c \in Callers : cpc[c] = "sendTask" /\ cw[c] = w}

Executing == {w \in WorkerIds : wpc[w] = "exec"}

\* C1: with the capacity fixed at C > 0, the running counter (what
\* Running() reads) never exceeds C and at most C tasks execute at the same
\* time.
C1_RunningAtMostCapacity ==
    (pool = "live" /\ capacity > 0) =>
        /\ running <= capacity
        /\ Cardinality(Executing) <= capacity

\* C2: a Worker returned by getWorker is not executing a task and is not
\* held by another Push caller.
C2_NoDoubleAssignment ==
    \A w \in WorkerIds :
        /\ Cardinality(Holders(w)) <= 1
        /\ (Holders(w) # {} => wpc[w] # "exec")

\* getWorker has returned to caller c
GotWorker(c) == cpc[c] \in {"sendTask", "returned"} /\ cw[c] # NoWorker

\* C3: a getWorker call that popped an entry from the idle stack returns
\* exactly that entry and mints nothing.
C3_PopReturnsTop ==
    \A c \in Callers :
        (GotWorker(c) /\ popped[c] # NoWorker) =>
            (cw[c] = popped[c] /\ minted[c] = NoWorker)

\* C4: a Push that starts after a Release call has returned returns
\* PoolClosedError in that step, takes no Worker, and leaves running,
\* capacity, the idle stack and freeSignal unchanged.
C4_PushAfterReleaseFails ==
    [][\A c \in Callers :
          (releases >= 1 /\ cpc[c] = "start" /\ cpc'[c] # "start") =>
              /\ cpc'[c] = "returned"
              /\ cresult'[c] = "PoolClosedError"
              /\ cw'[c] = NoWorker
              /\ UNCHANGED <<running, capacity, workers, freeSignal,
                             workerPool, wpc, wtask>>]_vars

\* C4 witness: a Push that started after Release returned has returned
\* PoolClosedError.
C4_Witness ==
    \E c \in Callers :
        relAtStart[c] >= 1 /\ cresult[c] = "PoolClosedError"

\* C5: a Push whose locked check found the idle stack empty and
\* running >= capacity gets its Worker only after a putWorker pushed an
\* entry after that check, it gets the entry it popped, and it mints
\* nothing; when only one other Push (A) was ever started, A's task has
\* completed by then.
C5_BlockedUntilPut ==
    \A b \in Callers :
        (waiting[b] /\ GotWorker(b)) =>
            /\ pushedSince[b]
            /\ minted[b] = NoWorker
            /\ cw[b] = popped[b]
            /\ \A a \in Callers \ {b} :
                 (\A o \in Callers \ {a, b} : cpc[o] = "start") => a \in done

\* C5 witness: with capacity 1, a blocked Push has obtained a Worker.
C5_Witness ==
    \E b \in Callers :
        waiting[b] /\ GotWorker(b) /\ capacity = 1 /\ pushedSince[b]

\* C9: a Worker is minted only by a getWorker call whose locked check
\* found the idle stack empty and running < capacity.
C9_MintOnlyWhenRoom ==
    \A c \in Callers :
        minted[c] # NoWorker => (popped[c] = NoWorker /\ ~waiting[c])

\* C10: the idle stack contains each Worker at most once.
C10_IdleStackNoDuplicates ==
    \A i, j \in 1..Len(workers) : workers[i] = workers[j] => i = j

\* C6: in a pool of fixed capacity C >= 1 that is never released, every
\* Push eventually returns nil and every task is eventually executed to
\* completion.
C6_AllTasksComplete ==
    (pool = "live" /\ capacity >= 1) ~>
        (\A c \in Callers : cresult[c] = "nil" /\ c \in done)

\* C6 witness: more tasks than capacity, a Push was blocked, and all tasks
\* have completed.
C6_Witness ==
    /\ capacity = 1
    /\ \E c \in Callers : waiting[c]
    /\ \A c \in Callers : cresult[c] = "nil" /\ c \in done

C8_NewPool ==
    [][(pool = "none" /\ pool' # "none") =>
          IF NonPositive(size)
          THEN pool' = "nil" /\ newErr' = "PoolSizeInvalidError"
          ELSE /\ pool' = "live"
               /\ newErr' = "nil"
               /\ GoInt(capacity') = size
               /\ running' = 0
               /\ closed' = 0
               /\ workers' = <<>>
               /\ freeSignal' = 0]_vars

\* C11: every Worker that is an entry of the idle stack is idle and owned
\* only by the stack: it is not executing a task and no Push caller holds
\* it.
C11_IdleStackEntriesIdle ==
    \A i \in 1..Len(workers) :
        /\ wpc[workers[i]] # "exec"
        /\ Holders(workers[i]) = {}

\* C12: a getWorker call that decided to wait takes exactly one freeSignal
\* unit, then retries the pop until the idle stack is non-empty and returns
\* exactly the entry it popped; it never reaches the allocation cache, never
\* mints and never changes running.
C12_BlockedPath ==
    [][\A c \in Callers :
          /\ (waiting'[c] /\ ~waiting[c]) => cpc'[c] = "recvSignal"
          /\ waiting[c] =>
               /\ waiting'[c]
               /\ cpc'[c] # "cacheGet"
               /\ minted'[c] = NoWorker
               /\ (cpc[c] = "retry" /\ workers = <<>>) => cpc'[c] = "retry"
               /\ cpc'[c] # cpc[c] =>
                    \/ /\ cpc[c] = "recvSignal"
                       /\ cpc'[c] = "retry"
                       /\ freeSignal' = freeSignal - 1
                       /\ UNCHANGED <<workers, running, workerPool, wpc>>
                    \/ /\ cpc[c] = "retry"
                       /\ cpc'[c] = "sendTask"
                       /\ workers # <<>>
                       /\ cw'[c] = workers[Len(workers)]
                       /\ Len(workers') = Len(workers) - 1
                       /\ UNCHANGED <<freeSignal, running, workerPool, wpc>>
                    \/ /\ cpc[c] = "sendTask"
                       /\ cpc'[c] = "returned"
                       /\ cw'[c] = cw[c]
                       /\ UNCHANGED <<freeSignal, running, workerPool,
                                      workers>>]_vars

\* C12 witness: a call that waited and took a unit finds the idle stack
\* empty on a retry (the unit was stale: its entry went to another call).
C12_Witness ==
    \E c \in Callers :
        /\ waiting[c] /\ cpc[c] = "retry" /\ workers = <<>>
        /\ \E d \in Callers \ {c} : popped[d] # NoWorker

\* getWorker calls that took a unit and have not popped yet
Woken == {c \in Callers : cpc[c] = "retry"}

\* putWorker calls between their push and their post
Posting == {w \in WorkerIds : wpc[w] = "signal"}

\* C13: each putWorker pushes exactly one entry and then posts exactly one
\* freeSignal unit, only blocked getWorker calls take units, and the units
\* buffered plus the woken calls plus the posts in flight are at least the
\* length of the idle stack.
C13_WakeUpAccounting ==
    /\ [](freeSignal + Cardinality(Woken) + Cardinality(Posting)
            >= Len(workers))
    /\ [][/\ Len(workers') > Len(workers) =>
               \E w \in WorkerIds :
                   /\ wpc[w] = "append" /\ wpc'[w] = "signal"
                   /\ workers' = Append(workers, w)
                   /\ freeSignal' = freeSignal
          /\ freeSignal' > freeSignal =>
               /\ freeSignal' = freeSignal + 1
               /\ workers' = workers
               /\ \E w \in WorkerIds : wpc[w] = "signal" /\ wpc'[w] = "recv"
          /\ freeSignal' < freeSignal =>
               /\ freeSignal' = freeSignal - 1
               /\ \E c \in Callers :
                   waiting[c] /\ cpc[c] = "recvSignal" /\ cpc'[c] = "retry"
         ]_vars

\* C13 witness: a call is parked on an empty freeSignal while the idle
\* stack holds an entry whose unit is still to be posted.
C13_Witness ==
    /\ freeSignal = 0
    /\ Len(workers) = 1
    /\ Cardinality(Posting) = 1
    /\ \E c \in Callers : cpc[c] = "recvSignal"

\* Workers created so far
Minted == {w \in WorkerIds : wpc[w] # "unborn"}

\* C14: running never decreases: it grows by exactly one with each Worker
\* minted in getWorker and no other step changes it, so it counts the
\* Workers minted so far, not the live ones.
C14_RunningHighWaterMark ==
    /\ [](running = Cardinality(Minted))
    /\ [][/\ running' >= running
          /\ (Minted' # Minted) =>
               /\ running' = running + 1
               /\ \E c \in Callers :
                    /\ cpc[c] = "cacheGet"
                    /\ minted[c] = NoWorker
                    /\ Minted' = Minted \cup {minted'[c]}
          /\ (Minted' = Minted) => running' = running
         ]_vars

\* C14 witness: two Workers were minted, both have finished their tasks and
\* put themselves back, no task is executing, and running is still 2.
C14_Witness ==
    /\ running = 2
    /\ Cardinality(done) >= 2
    /\ Len(workers) >= 1
    /\ \A w \in WorkerIds : wpc[w] \in {"unborn", "recv"}

\* C15: ReSize(n) sets capacity to n for every integer n, n <= 0 included,
\* and changes nothing else.
C15_ReSizeSetsCapacity ==
    [][\A s \in ReSizeSizes :
          ReSize(s) =>
              /\ GoInt(capacity') = s
              /\ UNCHANGED <<running, closed, workers, freeSignal,
                             workerPool, release, lock, cpc, cw, waiting,
                             cresult, wpc, wtask, stopped, done>>]_vars

\* C16: the first Release sets closed to 1, closes the release channel and
\* returns; a second Release never returns: it panics at the channel close
\* while holding the pool lock, and closed stays 1.
C16_ReleaseNotIdempotent ==
    /\ releases <= 1
    /\ (releases = 1 => closed = 1 /\ release = "closed")
    /\ (release = "closed" => closed = 1)
    /\ (rpc = "panicked" =>
           releases = 1 /\ lock = "Release" /\ closed = 1
               /\ release = "closed")
    /\ (releases = 1 /\ rpc \in {"store", "close"} => lock = "Release")

\* C16 witness: the second Release has panicked.
C16_Witness == rpc = "panicked" /\ releases = 1

\* the step in which Free returns
FreeReturns == fpc = "loaded" /\ fpc' = "returned"

\* C17: Free returns capacity minus running with no clamping: when no ReSize
\* falls between its two loads, the result is >= 0 whenever
\* running <= capacity and negative whenever capacity is below the running
\* count.
C17_FreeIsCapacityMinusRunning ==
    [][(FreeReturns /\ capacity = fcap) =>
          /\ (running <= capacity => ~Negative(fres'))
          /\ (capacity < running => Negative(fres'))]_vars

\* callers whose Push has read closed = 0 and has not returned
InProgress(c) == cpc[c] \notin {"start", "returned"}

\* C18: a step of Release leaves capacity, running, the idle stack,
\* freeSignal and every Push where they are; closed, once 1, stays 1; and a
\* Push that has read closed = 0 in a pool with room for a Worker still gets
\* its Worker, hands off its task and returns nil, whatever Release calls
\* run meanwhile.
C18_ReleaseLeavesPushesAlone ==
    /\ [][(rpc' # rpc) =>
             UNCHANGED <<capacity, running, workers, freeSignal, workerPool,
                         cpc, cw, waiting, cresult, wpc, wtask>>]_vars
    /\ [][closed = 1 => closed' = 1]_vars
    /\ \A c \in Callers :
         (InProgress(c) /\ capacity >= 1) ~> (cresult[c] = "nil")

====
